---- MODULE Spec2Model ----
(***************************************************************************)
(* Marketplace settlement engine of MData (src/server.js and its Cosmos-   *)
(* only variant src/unnamed/part_007).                                     *)
(*                                                                         *)
(* The store (Submissions, Orders, Agencies, Users, Withdrawals) is the    *)
(* shared state.  Every HTTP handler is an async function: each `await`    *)
(* on the store is a step of the handler, and steps of different requests  *)
(* interleave freely.  A request slot req[r] holds the handler's position  *)
(* (pc) and its local variables (the documents it has read).               *)
(*                                                                         *)
(* Money is a JavaScript number in the code.  It is modelled as an exact   *)
(* rational [n, d] in lowest terms, so sums and comparisons are those of   *)
(* real arithmetic (floating-point rounding is not modelled).              *)
(***************************************************************************)
EXTENDS Integers, Sequences, FiniteSets, TLC

\* ------------------------------------------------------------------ bounds
MaxItems == 2
MaxOrders == 1
MaxClock == 2
MaxCartIds == 2

\* -------------------------------------------------------- program constants
PricePerItem == 25
BatchSize == 5
MIN_WITHDRAWAL == 100
DefaultSoldPrice == 25

\* ----------------------------------------------------------- value universes
UserIds == {"u1", "u2"}
AgencyIds == {"a1", "a2"}
Categories == {"Images", "Code"}
Scores == {0, 50, 100}
ItemIds == 1..MaxItems
OrderIds == 1..MaxOrders
Reqs == {1, 2}
PaymentIds == {"pay1"}
NullStr == ""

\* ---------------------------------------------------------------- rationals
Abs(i) == IF i < 0 THEN -i ELSE i

RECURSIVE GCD(_, _)
GCD(a, b) == IF b = 0 THEN a ELSE GCD(b, a % b)

Norm(n, d) == LET g == GCD(Abs(n), d) IN [n |-> n \div g, d |-> d \div g]

R(i) == [n |-> i, d |-> 1]
NullNum == [n |-> 0, d |-> 0]
IsNum(x) == x.d > 0
RAdd(x, y) == Norm(x.n * y.d + y.n * x.d, x.d * y.d)
RSub(x, y) == Norm(x.n * y.d - y.n * x.d, x.d * y.d)
RMul(x, y) == Norm(x.n * y.n, x.d * y.d)
RLess(x, y) == x.n * y.d < y.n * x.d
RMax(x, y) == IF RLess(x, y) THEN y ELSE x

\* JavaScript `x || dflt` on a number: undefined, null and 0 are falsy.
OrElse(x, dflt) == IF (~IsNum(x)) \/ x.n = 0 THEN dflt ELSE x

ContributorShare == Norm(8, 10)

RECURSIVE RSumSeq(_)
RSumSeq(s) == IF s = <<>> THEN R(0) ELSE RAdd(Head(s), RSumSeq(Tail(s)))

RECURSIVE SumSeq(_)
SumSeq(s) == IF s = <<>> THEN 0 ELSE Head(s) + SumSeq(Tail(s))

\* --------------------------------------------------------- payout calculator
\* A calculator whose middle segment lacks its base of 5.
calculatePayout_NoMiddleBase(qualityScore) ==
    IF qualityScore < 50 THEN RMax(Norm(1, 10), Norm(qualityScore, 10))
    ELSE IF qualityScore < 80 THEN Norm(qualityScore - 50, 2)
    ELSE RAdd(R(20), R((qualityScore - 80) * 4))

\* A calculator whose top segment pays 3 per point instead of 4.
calculatePayout_TopRateThree(qualityScore) ==
    IF qualityScore < 50 THEN RMax(Norm(1, 10), Norm(qualityScore, 10))
    ELSE IF qualityScore < 80 THEN RAdd(R(5), Norm(qualityScore - 50, 2))
    ELSE RAdd(R(20), R((qualityScore - 80) * 3))

calculatePayout(qualityScore) ==
    IF qualityScore < 50 THEN RMax(Norm(1, 10), Norm(qualityScore, 10))
    ELSE IF qualityScore < 80 THEN RAdd(R(5), Norm(qualityScore - 50, 2))
    ELSE RAdd(R(20), R((qualityScore - 80) * 4))

\* ------------------------------------------------------------------- state
VARIABLES
    USE_GOOGLE_CLOUD,   \* deployment switch, fixed at start-up
    Submissions,        \* item id -> submission document
    Orders,             \* order id -> order document
    Agencies,           \* agency id -> agency document (cart only)
    Users,              \* user id -> user document (balance only)
    Withdrawals,        \* sequence of withdrawal documents
    now,                \* wall clock (new Date())
    nextItemId,         \* source of fresh submission ids (blob names)
    nextCartId,         \* source of fresh cart entry ids (crypto.randomUUID())
    req                 \* request slot -> handler position and locals

vars == <<USE_GOOGLE_CLOUD, Submissions, Orders, Agencies, Users, Withdrawals,
          now, nextItemId, nextCartId, req>>

store == <<Submissions, Orders, Agencies, Users, Withdrawals>>

\* An ascending sequence of the elements of a finite set of integers
\* (the order in which a query returns documents: by id).
RECURSIVE SortedSeq(_)
SortedSeq(S) ==
    IF S = {} THEN <<>>
    ELSE LET m == CHOOSE x \in S : \A y \in S : x <= y
         IN <<m>> \o SortedSeq(S \ {m})

SeqToSet(s) == {s[i] : i \in 1..Len(s)}

\* JavaScript Array.prototype.slice(0, k)
Slice0(s, k) == SubSeq(s, 1, IF Len(s) < k THEN Len(s) ELSE k)

\* The document written by ingestion for a file of the given owner, score and
\* category: nothing about a sale is set.
NewSubmission(id, userId, score, category) ==
    [id |-> id, userId |-> userId, quality_score |-> score,
     payout |-> calculatePayout(score), market_category |-> category,
     sold_to |-> NullStr, sold_price |-> NullNum,
     transaction_date |-> 0, status |-> NullStr]

\* History entry of a sale written by a request.
SaleOf(doc) == [id |-> doc.id, sold_price |-> doc.sold_price]

\* Store write of a whole document under its id (Cosmos upsert, Firestore set).
Upsert(coll, doc) ==
    [i \in DOMAIN coll \cup {doc.id} |-> IF i = doc.id THEN doc ELSE coll[i]]

\* A request slot that has not received a request.
IdleReq ==
    [op |-> "none", pc |-> "idle", status |-> 0,
     who |-> NullStr,          \* agencyId / userId of the request body
     cats |-> <<>>,            \* categories still to be processed
     batch |-> <<>>,           \* documents read and still to be written
     count |-> 0,              \* purchasedCount of the current batch
     totalQ |-> 0,             \* totalQualityScore of the current batch
     ref |-> 0,                \* razorpay_order_id of the request body
     pay |-> NullStr,          \* razorpay_payment_id of the request body
     orderDoc |-> [id |-> 0],  \* the order document as read and mutated
     cart |-> <<>>,            \* the cart as read and mutated
     amount |-> 0,             \* requested withdrawal amount
     earned |-> R(0),          \* totalEarnings read by withdraw-request
     avail |-> R(0),           \* availableBalance computed by withdraw-request
     bal |-> R(0),             \* currentBalance read by the Firestore credit
     sigValid |-> FALSE,       \* history: the signature presented is the HMAC
     rerun |-> FALSE,          \* history: the order had been settled before
     wrote |-> {},             \* history: items this request wrote as sold
     lines |-> <<>>,           \* history: the batch written per category line
     credits |-> <<>>]         \* history: [user, amount] credits applied

\* A request is served by the first slot that holds no request in flight; the
\* slot keeps the last answer (and its history) until the next request.
InFlight(r) == req[r].pc \notin {"idle", "done"}
FreeSlot(r) == ~InFlight(r) /\ \A q \in Reqs : q < r => InFlight(q)

\* The answer of a handler: its locals are gone, the history stays.
Respond(rq, code) ==
    [IdleReq EXCEPT !.op = rq.op, !.pc = "done", !.status = code,
                    !.who = rq.who, !.amount = rq.amount, !.avail = rq.avail,
                    !.ref = rq.ref, !.sigValid = rq.sigValid,
                    !.rerun = rq.rerun, !.wrote = rq.wrote,
                    !.lines = rq.lines, !.credits = rq.credits]

InitStore(inventory) ==
    /\ USE_GOOGLE_CLOUD \in BOOLEAN
    /\ Submissions = [i \in 1..Len(inventory) |->
                        NewSubmission(i, inventory[i][1], inventory[i][2],
                                      inventory[i][3])]
    /\ Orders = << >>
    /\ Agencies = [a \in AgencyIds |-> [hasCart |-> FALSE, cart |-> <<>>]]
    /\ Users = [u \in UserIds |-> [balance |-> R(0)]]
    /\ Withdrawals = <<>>
    /\ now = 1
    /\ nextItemId = Len(inventory) + 1
    /\ nextCartId = 1
    /\ req = [r \in Reqs |-> IdleReq]

\* Time passes.
Tick ==
    /\ now < MaxClock
    /\ now' = now + 1
    /\ UNCHANGED <<USE_GOOGLE_CLOUD, store, nextItemId, nextCartId, req>>

\* ------------------------------------------------ POST /api/process-file
\* Ingestion.  The quality scorer and the classifier are external: the score
\* and the category are inputs.  One store write at the end of the handler.
ProcessFile(userId, score, category) ==
    /\ nextItemId <= MaxItems
    /\ Submissions' = Upsert(Submissions,
                             NewSubmission(nextItemId, userId, score, category))
    /\ nextItemId' = nextItemId + 1
    /\ UNCHANGED <<USE_GOOGLE_CLOUD, Orders, Agencies, Users, Withdrawals,
                   now, nextCartId, req>>

\* The trust_score of the language model's JSON answer: a number, or a value
\* that is not a number (the answer is parsed, not validated).
JsNumber(v) == [isNumber |-> TRUE, value |-> v]
JsNotANumber == [isNumber |-> FALSE, value |-> 0]

\* Quality analysis of a text file: `trust_score || 50`, and the payout of
\* that score.  Arithmetic on a value that is not a number gives NaN, which
\* the store keeps as no number at all.
analyzeContentQualityGPT4o(trust_score) ==
    LET score == IF trust_score.isNumber /\ trust_score.value = 0
                 THEN JsNumber(50) ELSE trust_score
    IN [quality_score |-> score,
        payout |-> IF score.isNumber THEN calculatePayout(score.value)
                   ELSE NullNum]

\* Ingestion of a text or document file whose content could be read: score
\* and payout are those of the quality analysis (quality_score is stored as
\* the analysis returned it).
ProcessTextFile(userId, trust_score, category) ==
    /\ nextItemId <= MaxItems
    /\ LET aiResult == analyzeContentQualityGPT4o(trust_score)
       IN Submissions' = Upsert(Submissions,
            [NewSubmission(nextItemId, userId, 0, category) EXCEPT
                !.quality_score = aiResult.quality_score,
                !.payout = aiResult.payout])
    /\ nextItemId' = nextItemId + 1
    /\ UNCHANGED <<USE_GOOGLE_CLOUD, Orders, Agencies, Users, Withdrawals,
                   now, nextCartId, req>>

\* ------------------------------------------------ DELETE /api/files/:fileId
\* Read of the submission and the checks on it: the file must exist, belong
\* to the caller (Cosmos selects by id and owner, Firestore compares the
\* owner after the read) and must not be sold.
DeleteFileRead(r, fileId, userId) ==
    /\ FreeSlot(r)
    /\ LET rq == [IdleReq EXCEPT !.op = "delete", !.who = userId,
                                 !.ref = fileId]
           exists == fileId \in DOMAIN Submissions
       IN req' = [req EXCEPT ![r] =
            IF userId = NullStr THEN Respond(rq, 400)
            ELSE IF USE_GOOGLE_CLOUD
            THEN IF ~exists THEN Respond(rq, 404)
                 ELSE IF Submissions[fileId].userId # userId
                      THEN Respond(rq, 403)
                 ELSE IF Submissions[fileId].sold_to # NullStr
                      THEN Respond(rq, 400)
                 ELSE [rq EXCEPT !.pc = "delete_write"]
            ELSE IF ~exists \/ Submissions[fileId].userId # userId
                 THEN Respond(rq, 404)
                 ELSE IF Submissions[fileId].sold_to # NullStr
                      THEN Respond(rq, 400)
                 ELSE [rq EXCEPT !.pc = "delete_write"]]
    /\ UNCHANGED <<USE_GOOGLE_CLOUD, store, now, nextItemId, nextCartId>>

\* Delete of the document by its id (a delete of a missing document leaves
\* the store as it is).
DeleteFileWrite(r) ==
    /\ req[r].pc = "delete_write"
    /\ Submissions' = [i \in DOMAIN Submissions \ {req[r].ref} |->
                          Submissions[i]]
    /\ req' = [req EXCEPT ![r] =
          IF req[r].ref \in DOMAIN Submissions \/ USE_GOOGLE_CLOUD
          THEN Respond(@, 200) ELSE Respond(@, 500)]
    /\ UNCHANGED <<USE_GOOGLE_CLOUD, Orders, Agencies, Users, Withdrawals,
                   now, nextItemId, nextCartId>>

\* ------------------------------------------------------- allocation engine
\* The unsold documents of a category, in query order.
UnsoldIn(category) ==
    LET ids == {i \in DOMAIN Submissions :
                  /\ Submissions[i].market_category = category
                  /\ Submissions[i].sold_to = NullStr}
        order == SortedSeq(ids)
    IN [k \in 1..Len(order) |-> Submissions[order[k]]]

TotalQuality(docs) == SumSeq([k \in 1..Len(docs) |-> docs[k].quality_score])

\* An allocation that gives every item the equal share.
ItemPayout_EqualShare(count, totalQ, q) == Norm(count * PricePerItem, count)

\* itemPayout of purchase / checkout: the quality-weighted share of the batch
\* value, or the equal share when the batch has no quality at all.
ItemPayout(count, totalQ, q) ==
    IF totalQ > 0 THEN Norm(count * PricePerItem * q, totalQ)
    ELSE Norm(count * PricePerItem, count)

\* The document purchase / checkout upsert for an item of the batch.
MarketSold(item, agencyId, count, totalQ) ==
    LET p == ItemPayout(count, totalQ, item.quality_score)
    IN [item EXCEPT !.sold_to = agencyId, !.transaction_date = now,
                    !.payout = p, !.sold_price = p]

\* ------------------------------------------------ POST /api/market/purchase
\* Validation and the category query.  The handler works on the Cosmos
\* database whatever the deployment switch says; under Google Cloud that
\* database is not the marketplace store (it is unset or a different store),
\* so the request ends without touching the store modelled here.
PurchaseFetch(r, category, agencyId) ==
    /\ FreeSlot(r)
    /\ LET rq == [IdleReq EXCEPT !.op = "purchase", !.who = agencyId]
           unsold == UnsoldIn(category)
           itemsToBuy == Slice0(unsold, BatchSize)
       IN req' = [req EXCEPT ![r] =
            IF category = NullStr \/ agencyId = NullStr THEN Respond(rq, 400)
            ELSE IF USE_GOOGLE_CLOUD THEN Respond(rq, 500)
            ELSE IF Len(unsold) = 0
                 THEN Respond([rq EXCEPT !.lines = <<<<>>>>], 404)
            ELSE [rq EXCEPT !.pc = "purchase_write",
                            !.batch = itemsToBuy,
                            !.count = Len(itemsToBuy),
                            !.totalQ = TotalQuality(itemsToBuy),
                            !.lines = <<<<>>>>]]
    /\ UNCHANGED <<USE_GOOGLE_CLOUD, store, now, nextItemId, nextCartId>>

\* One iteration of the update loop: upsert of the next item of the batch.
MarketWrite(r, pcHere, pcNext) ==
    /\ req[r].pc = pcHere
    /\ LET rq == req[r]
           doc == MarketSold(Head(rq.batch), rq.who, rq.count, rq.totalQ)
           rest == Tail(rq.batch)
           rq2 == [rq EXCEPT !.batch = rest,
                             !.wrote = @ \cup {doc.id},
                             !.lines[Len(rq.lines)] = Append(@, SaleOf(doc))]
       IN /\ Submissions' = Upsert(Submissions, doc)
          /\ req' = [req EXCEPT ![r] =
                IF rest # <<>> THEN rq2
                ELSE IF pcNext = "done" \/ rq.cats = <<>> THEN Respond(rq2, 200)
                ELSE [rq2 EXCEPT !.pc = pcNext]]
    /\ UNCHANGED <<USE_GOOGLE_CLOUD, Orders, Agencies, Users, Withdrawals,
                   now, nextItemId, nextCartId>>

PurchaseWrite(r) == MarketWrite(r, "purchase_write", "done")

\* ------------------------------------------------ POST /api/market/checkout
CheckoutStart(r, items, agencyId) ==
    /\ FreeSlot(r)
    /\ LET rq == [IdleReq EXCEPT !.op = "checkout", !.who = agencyId]
       IN req' = [req EXCEPT ![r] =
            IF agencyId = NullStr THEN Respond(rq, 400)
            ELSE IF USE_GOOGLE_CLOUD THEN Respond(rq, 500)
            ELSE IF items = <<>> THEN Respond(rq, 200)
            ELSE [rq EXCEPT !.pc = "checkout_fetch", !.cats = items]]
    /\ UNCHANGED <<USE_GOOGLE_CLOUD, store, now, nextItemId, nextCartId>>

\* The category query of one cart item.
CheckoutFetch(r) ==
    /\ req[r].pc = "checkout_fetch"
    /\ LET rq == req[r]
           unsold == UnsoldIn(Head(rq.cats))
           itemsToBuy == Slice0(unsold, BatchSize)
           rest == Tail(rq.cats)
           rq2 == [rq EXCEPT !.cats = rest, !.lines = Append(@, <<>>)]
       IN req' = [req EXCEPT ![r] =
            IF Len(unsold) > 0
            THEN [rq2 EXCEPT !.pc = "checkout_write",
                             !.batch = itemsToBuy,
                             !.count = Len(itemsToBuy),
                             !.totalQ = TotalQuality(itemsToBuy)]
            ELSE IF rest = <<>> THEN Respond(rq2, 200)
            ELSE rq2]
    /\ UNCHANGED <<USE_GOOGLE_CLOUD, store, now, nextItemId, nextCartId>>

CheckoutWrite(r) == MarketWrite(r, "checkout_write", "checkout_fetch")

\* ---------------------------------------------------- POST /api/agency/cart
CartIdName(n) == <<"cart1", "cart2", "cart3", "cart4">>[n]

\* A handler that pushes the new entry without the duplicate check.
CartAddRead_NoDuplicateCheck(r, agencyId, category) ==
    /\ FreeSlot(r)
    /\ nextCartId <= MaxCartIds
    /\ LET rq == [IdleReq EXCEPT !.op = "cartAdd", !.who = agencyId]
           cart == Agencies[agencyId].cart
       IN /\ req' = [req EXCEPT ![r] =
                [rq EXCEPT !.pc = "cart_write",
                   !.cart = Append(cart, [id |-> CartIdName(nextCartId),
                                          category |-> category])]]
          /\ nextCartId' = nextCartId + 1
    /\ UNCHANGED <<USE_GOOGLE_CLOUD, store, now, nextItemId>>

\* Read of the agency document, duplicate check, and the push of the new
\* entry onto the document read.
CartAddRead(r, agencyId, category) ==
    /\ FreeSlot(r)
    /\ nextCartId <= MaxCartIds
    /\ LET rq == [IdleReq EXCEPT !.op = "cartAdd", !.who = agencyId]
           cart == Agencies[agencyId].cart
           existing == \E k \in 1..Len(cart) : cart[k].category = category
       IN /\ req' = [req EXCEPT ![r] =
                IF existing THEN Respond(rq, 409)
                ELSE [rq EXCEPT !.pc = "cart_write",
                        !.cart = Append(cart, [id |-> CartIdName(nextCartId),
                                               category |-> category])]]
          /\ nextCartId' = IF existing THEN nextCartId ELSE nextCartId + 1
    /\ UNCHANGED <<USE_GOOGLE_CLOUD, store, now, nextItemId>>

\* Write of the whole agency document (upsert / set).
CartAddWrite(r) ==
    /\ req[r].pc = "cart_write"
    /\ Agencies' = [Agencies EXCEPT ![req[r].who] =
                       [hasCart |-> TRUE, cart |-> req[r].cart]]
    /\ req' = [req EXCEPT ![r] = IdleReq]
    /\ UNCHANGED <<USE_GOOGLE_CLOUD, Submissions, Orders, Users, Withdrawals,
                   now, nextItemId, nextCartId>>

\* ------------------------------------------ DELETE /api/agency/cart/:itemId
\* Read of the agency document and the filter of its cart: the entries whose
\* id or category is itemId are dropped.  Without a cart the handler answers
\* at once.  The write is that of the whole agency document.
CartRemoveRead(r, agencyId, itemId) ==
    /\ FreeSlot(r)
    /\ LET rq == [IdleReq EXCEPT !.op = "cartRemove", !.who = agencyId]
           cart == Agencies[agencyId].cart
       IN req' = [req EXCEPT ![r] =
            IF ~Agencies[agencyId].hasCart THEN IdleReq
            ELSE [rq EXCEPT !.pc = "cart_write",
                    !.cart = SelectSeq(cart,
                                LAMBDA c : c.id # itemId
                                           /\ c.category # itemId)]]
    /\ UNCHANGED <<USE_GOOGLE_CLOUD, store, now, nextItemId, nextCartId>>

\* ---------------------------------------------------- DELETE /api/agency/cart
\* Read of the agency document; the write sets its cart to the empty list.
CartClearRead(r, agencyId) ==
    /\ FreeSlot(r)
    /\ req' = [req EXCEPT ![r] =
          [IdleReq EXCEPT !.op = "cartClear", !.who = agencyId,
                          !.pc = "cart_write", !.cart = <<>>]]
    /\ UNCHANGED <<USE_GOOGLE_CLOUD, store, now, nextItemId, nextCartId>>

\* What the agency's client sends as cartItems: the ids of the entries of its
\* cart, or (older cart format) their categories.
CartIdsOf(agencyId) ==
    [k \in 1..Len(Agencies[agencyId].cart) |-> Agencies[agencyId].cart[k].id]

CartCategoriesOf(agencyId) ==
    [k \in 1..Len(Agencies[agencyId].cart) |->
        Agencies[agencyId].cart[k].category]

\* ------------------------------------------ POST /api/checkout/create-payment
\* A handler that also holds the unsold items for the buyer.
CreatePayment_HoldsItems(agencyId, cartItems, totalAmount) ==
    /\ agencyId # NullStr
    /\ totalAmount # 0
    /\ Cardinality(DOMAIN Orders) < MaxOrders
    /\ LET id == Cardinality(DOMAIN Orders) + 1
       IN Orders' = Upsert(Orders,
            [id |-> id, agencyId |-> agencyId, items |-> cartItems,
             totalAmount |-> totalAmount, razorpayOrderId |-> id,
             status |-> "pending", createdAt |-> now,
             razorpayPaymentId |-> NullStr, paidAt |-> 0])
    /\ Submissions' = [i \in DOMAIN Submissions |->
                         IF Submissions[i].sold_to = NullStr
                         THEN [Submissions[i] EXCEPT !.sold_to = agencyId]
                         ELSE Submissions[i]]
    /\ UNCHANGED <<USE_GOOGLE_CLOUD, Agencies, Users, Withdrawals,
                   now, nextItemId, nextCartId, req>>

\* The payment provider issues the order reference; the handler stores the
\* pending order.  cartItems and totalAmount are taken from the request body.
\* The provider's reference is modelled by the order's own number.
CreatePayment(agencyId, cartItems, totalAmount) ==
    /\ agencyId # NullStr
    /\ totalAmount # 0
    /\ Cardinality(DOMAIN Orders) < MaxOrders
    /\ LET id == Cardinality(DOMAIN Orders) + 1
       IN Orders' = Upsert(Orders,
            [id |-> id, agencyId |-> agencyId, items |-> cartItems,
             totalAmount |-> totalAmount, razorpayOrderId |-> id,
             status |-> "pending", createdAt |-> now,
             razorpayPaymentId |-> NullStr, paidAt |-> 0])
    /\ UNCHANGED <<USE_GOOGLE_CLOUD, Submissions, Agencies, Users, Withdrawals,
                   now, nextItemId, nextCartId, req>>

\* ------------------------------------------ POST /api/checkout/verify-payment
\* HMAC-SHA256 of "order_id|payment_id" under the shared secret: a value
\* determined by the pair, which only the holder of the secret can compute.
Hmac(orderRef, paymentId) == <<"hmac", orderRef, paymentId>>
ForgedSignature == <<"forged", 0, NullStr>>
NoSignature == <<>>

\* The confirmation carries every field and its signature is the HMAC.
ValidConfirmation(razorpay_order_id, razorpay_payment_id, razorpay_signature) ==
    /\ razorpay_order_id # 0
    /\ razorpay_payment_id # NullStr
    /\ razorpay_signature # NoSignature
    /\ razorpay_signature = Hmac(razorpay_order_id, razorpay_payment_id)

\* The request as it enters the handler.
VerifyRequest(razorpay_order_id, razorpay_payment_id, razorpay_signature) ==
    [IdleReq EXCEPT
        !.op = "verify",
        !.ref = razorpay_order_id,
        !.pay = razorpay_payment_id,
        !.sigValid = ValidConfirmation(razorpay_order_id, razorpay_payment_id,
                                       razorpay_signature),
        !.rerun = \E q \in Reqs : /\ req[q].op = "verify"
                                  /\ req[q].pc = "done"
                                  /\ req[q].status = 200
                                  /\ req[q].ref = razorpay_order_id]

\* A handler that goes on to the order whatever the signature is.
VerifyStart_NoSignatureCheck(r, razorpay_order_id, razorpay_payment_id, razorpay_signature) ==
    /\ FreeSlot(r)
    /\ LET rq == VerifyRequest(razorpay_order_id, razorpay_payment_id,
                               razorpay_signature)
       IN req' = [req EXCEPT ![r] =
            IF \/ razorpay_order_id = 0
               \/ razorpay_payment_id = NullStr
               \/ razorpay_signature = NoSignature
            THEN Respond(rq, 400)
            ELSE [rq EXCEPT !.pc = "verify_find"]]
    /\ UNCHANGED <<USE_GOOGLE_CLOUD, store, now, nextItemId, nextCartId>>

\* A handler that looks the order up before it rejects the signature, and
\* answers 404 when there is no such order.
VerifyStart_LooksUpOrder(r, razorpay_order_id, razorpay_payment_id, razorpay_signature) ==
    /\ FreeSlot(r)
    /\ LET rq == VerifyRequest(razorpay_order_id, razorpay_payment_id,
                               razorpay_signature)
       IN req' = [req EXCEPT ![r] =
            IF \/ razorpay_order_id = 0
               \/ razorpay_payment_id = NullStr
               \/ razorpay_signature = NoSignature
            THEN Respond(rq, 400)
            ELSE IF razorpay_order_id \notin DOMAIN Orders
            THEN Respond(rq, 404)
            ELSE IF Hmac(razorpay_order_id, razorpay_payment_id)
                      # razorpay_signature
            THEN Respond(rq, 400)
            ELSE [rq EXCEPT !.pc = "verify_find"]]
    /\ UNCHANGED <<USE_GOOGLE_CLOUD, store, now, nextItemId, nextCartId>>

\* Missing-field check and signature check.
VerifyStart(r, razorpay_order_id, razorpay_payment_id, razorpay_signature) ==
    /\ FreeSlot(r)
    /\ LET rq == VerifyRequest(razorpay_order_id, razorpay_payment_id,
                               razorpay_signature)
       IN req' = [req EXCEPT ![r] =
            IF \/ razorpay_order_id = 0
               \/ razorpay_payment_id = NullStr
               \/ razorpay_signature = NoSignature
            THEN Respond(rq, 400)
            ELSE IF Hmac(razorpay_order_id, razorpay_payment_id)
                      # razorpay_signature
            THEN Respond(rq, 400)
            ELSE [rq EXCEPT !.pc = "verify_find"]]
    /\ UNCHANGED <<USE_GOOGLE_CLOUD, store, now, nextItemId, nextCartId>>

\* Query of the order by the provider's reference; the handler sets the
\* payment fields on the document it read.
VerifyFind(r) ==
    /\ req[r].pc = "verify_find"
    /\ LET rq == req[r]
           found == {o \in DOMAIN Orders :
                        Orders[o].razorpayOrderId = rq.ref}
       IN req' = [req EXCEPT ![r] =
            IF found = {} THEN Respond(rq, 404)
            ELSE LET order == Orders[CHOOSE o \in found : TRUE]
                 IN [rq EXCEPT !.pc = "verify_order_write",
                               !.who = order.agencyId,
                               !.orderDoc = [order EXCEPT
                                   !.status = "paid",
                                   !.razorpayPaymentId = rq.pay,
                                   !.paidAt = now]]]
    /\ UNCHANGED <<USE_GOOGLE_CLOUD, store, now, nextItemId, nextCartId>>

\* Write of the whole order document (Cosmos upsert; Firestore set-merge of
\* every field of the document read).
VerifyOrderWrite(r) ==
    /\ req[r].pc = "verify_order_write"
    /\ Orders' = Upsert(Orders, req[r].orderDoc)
    /\ req' = [req EXCEPT ![r].pc = "verify_cart"]
    /\ UNCHANGED <<USE_GOOGLE_CLOUD, Submissions, Agencies, Users, Withdrawals,
                   now, nextItemId, nextCartId>>

\* purchasedCategories: each entry of order.items is looked up in the cart by
\* id; an entry that is not found stands for a category itself.  Without a
\* cart on the agency document nothing is purchased.
PurchasedCategories(items, agency) ==
    IF ~agency.hasCart THEN <<>>
    ELSE [k \in 1..Len(items) |->
            LET hit == {j \in 1..Len(agency.cart) : agency.cart[j].id = items[k]}
            IN IF hit # {}
               THEN agency.cart[CHOOSE j \in hit : \A i \in hit : j <= i].category
               ELSE items[k]]

VerifyReadCart(r) ==
    /\ req[r].pc = "verify_cart"
    /\ req' = [req EXCEPT ![r].pc = "verify_query",
                          ![r].cats = PurchasedCategories(req[r].orderDoc.items,
                                                          Agencies[req[r].who])]
    /\ UNCHANGED <<USE_GOOGLE_CLOUD, store, now, nextItemId, nextCartId>>

\* The category query of the settlement loop: every unsold document of the
\* category is taken.  When no category is left the cart is cleared and the
\* handler answers.
VerifyQuery(r) ==
    /\ req[r].pc = "verify_query"
    /\ req[r].cats # <<>>
    /\ LET rq == req[r]
           submissions == UnsoldIn(Head(rq.cats))
           rq2 == [rq EXCEPT !.cats = Tail(@), !.lines = Append(@, <<>>)]
       IN req' = [req EXCEPT ![r] =
            IF submissions = <<>> THEN rq2
            ELSE [rq2 EXCEPT !.pc = "verify_write", !.batch = submissions]]
    /\ UNCHANGED <<USE_GOOGLE_CLOUD, store, now, nextItemId, nextCartId>>

\* The fields the settlement loop sets on a submission.
SettleSold(submission, agencyId) ==
    [submission EXCEPT !.sold_to = agencyId,
                       !.sold_price = OrElse(submission.payout,
                                             R(DefaultSoldPrice)),
                       !.transaction_date = now,
                       !.status = "Purchased"]

\* Cosmos: replace of the whole document read; a replace of a document that
\* no longer exists throws and is caught per item.
VerifyWriteCosmos(r) ==
    /\ req[r].pc = "verify_write"
    /\ ~USE_GOOGLE_CLOUD
    /\ LET rq == req[r]
           doc == SettleSold(Head(rq.batch), rq.who)
           present == doc.id \in DOMAIN Submissions
           rq2 == [rq EXCEPT !.batch = Tail(@),
                     !.wrote = IF present THEN @ \cup {doc.id} ELSE @,
                     !.lines[Len(rq.lines)] =
                         IF present THEN Append(@, SaleOf(doc)) ELSE @]
       IN /\ Submissions' = IF present THEN Upsert(Submissions, doc)
                            ELSE Submissions
          /\ req' = [req EXCEPT ![r] =
                IF Tail(rq.batch) = <<>> THEN [rq2 EXCEPT !.pc = "verify_query"]
                ELSE rq2]
    /\ UNCHANGED <<USE_GOOGLE_CLOUD, Orders, Agencies, Users, Withdrawals,
                   now, nextItemId, nextCartId>>

\* Firestore: update of the four sale fields of the stored document; an
\* update of a missing document throws and ends the category.
VerifyWriteFirestore(r) ==
    /\ req[r].pc = "verify_write"
    /\ USE_GOOGLE_CLOUD
    /\ LET rq == req[r]
           read == Head(rq.batch)
           present == read.id \in DOMAIN Submissions
           sold == SettleSold(read, rq.who)
           doc == [Submissions[read.id] EXCEPT
                      !.sold_to = sold.sold_to,
                      !.sold_price = sold.sold_price,
                      !.transaction_date = sold.transaction_date,
                      !.status = sold.status]
       IN IF present
          THEN /\ Submissions' = Upsert(Submissions, doc)
               /\ req' = [req EXCEPT ![r] =
                     [rq EXCEPT !.pc = "verify_credit_read",
                                !.wrote = @ \cup {doc.id},
                                !.lines[Len(rq.lines)] = Append(@, SaleOf(doc))]]
          ELSE /\ Submissions' = Submissions
               /\ req' = [req EXCEPT ![r] =
                     [rq EXCEPT !.pc = "verify_query", !.batch = <<>>]]
    /\ UNCHANGED <<USE_GOOGLE_CLOUD, Orders, Agencies, Users, Withdrawals,
                   now, nextItemId, nextCartId>>

\* Firestore: read of the owner's balance.
VerifyCreditRead(r) ==
    /\ req[r].pc = "verify_credit_read"
    /\ req' = [req EXCEPT ![r].pc = "verify_credit_write",
                 ![r].bal = OrElse(Users[Head(req[r].batch).userId].balance,
                                   R(0))]
    /\ UNCHANGED <<USE_GOOGLE_CLOUD, store, now, nextItemId, nextCartId>>

\* Firestore: write of the balance read plus the credit.
VerifyCreditWrite(r) ==
    /\ req[r].pc = "verify_credit_write"
    /\ LET rq == req[r]
           submission == Head(rq.batch)
           credit == OrElse(submission.payout, R(DefaultSoldPrice))
           rq2 == [rq EXCEPT !.batch = Tail(@),
                     !.credits = Append(@, [user |-> submission.userId,
                                            item |-> submission.id,
                                            amount |-> credit])]
       IN /\ Users' = [Users EXCEPT ![submission.userId].balance =
                          RAdd(rq.bal, credit)]
          /\ req' = [req EXCEPT ![r] =
                IF Tail(rq.batch) = <<>> THEN [rq2 EXCEPT !.pc = "verify_query"]
                ELSE [rq2 EXCEPT !.pc = "verify_write"]]
    /\ UNCHANGED <<USE_GOOGLE_CLOUD, Submissions, Orders, Agencies, Withdrawals,
                   now, nextItemId, nextCartId>>

\* A handler that clears the cart and answers while categories are left.
VerifyClearCart_BeforeSettling(r) ==
    /\ req[r].pc = "verify_query"
    /\ Agencies' = [Agencies EXCEPT ![req[r].who] =
                       [hasCart |-> TRUE, cart |-> <<>>]]
    /\ req' = [req EXCEPT ![r] = Respond(@, 200)]
    /\ UNCHANGED <<USE_GOOGLE_CLOUD, Submissions, Orders, Users, Withdrawals,
                   now, nextItemId, nextCartId>>

\* A handler that answers after the last category and leaves the cart alone.
VerifyClearCart_KeepsCart(r) ==
    /\ req[r].pc = "verify_query"
    /\ req[r].cats = <<>>
    /\ req' = [req EXCEPT ![r] = Respond(@, 200)]
    /\ UNCHANGED <<USE_GOOGLE_CLOUD, store, now, nextItemId, nextCartId>>

\* The cart is cleared after the last category, and the handler answers.
VerifyClearCart(r) ==
    /\ req[r].pc = "verify_query"
    /\ req[r].cats = <<>>
    /\ Agencies' = [Agencies EXCEPT ![req[r].who] =
                       [hasCart |-> TRUE, cart |-> <<>>]]
    /\ req' = [req EXCEPT ![r] = Respond(@, 200)]
    /\ UNCHANGED <<USE_GOOGLE_CLOUD, Submissions, Orders, Users, Withdrawals,
                   now, nextItemId, nextCartId>>

\* The settlement stops (the process exits, or the connection to the store
\* is lost) after the order was written as paid: the handler takes no
\* further step and gives no answer.
VerifyStop(r) ==
    /\ req[r].op = "verify"
    /\ req[r].pc \in {"verify_cart", "verify_query", "verify_write",
                      "verify_credit_read", "verify_credit_write"}
    /\ req' = [req EXCEPT ![r] = Respond(@, 0)]
    /\ UNCHANGED <<USE_GOOGLE_CLOUD, store, now, nextItemId, nextCartId>>

\* ------------------------------------------- POST /api/user/withdraw-request
\* totalEarnings: 80% of the payout field of the owner's sold submissions
\* (Firestore selects them by status, Cosmos by sold_to).
TotalEarnings(userId) ==
    LET ids == {i \in DOMAIN Submissions :
                  /\ Submissions[i].userId = userId
                  /\ IF USE_GOOGLE_CLOUD
                     THEN Submissions[i].status = "Purchased"
                     ELSE Submissions[i].sold_to # NullStr}
        order == SortedSeq(ids)
    IN RSumSeq([k \in 1..Len(order) |->
                  RMul(OrElse(Submissions[order[k]].payout, R(0)),
                       ContributorShare)])

\* withdrawnAmount: the owner's pending, processing and completed requests.
WithdrawnAmount(userId) ==
    SumSeq([k \in 1..Len(Withdrawals) |->
              IF /\ Withdrawals[k].userId = userId
                 /\ Withdrawals[k].status \in
                        {"pending", "processing", "completed"}
              THEN Withdrawals[k].amount ELSE 0])

\* availableBalance of POST /api/user/withdraw-request.
WithdrawRequestAvailable(userId) ==
    RSub(TotalEarnings(userId), R(WithdrawnAmount(userId)))

\* availableBalance of GET /api/user/withdrawals: every withdrawal of the
\* owner is read, and those that are not rejected are summed.
WithdrawalsAvailable(userId) ==
    RSub(TotalEarnings(userId),
         R(SumSeq([k \in 1..Len(Withdrawals) |->
                     IF /\ Withdrawals[k].userId = userId
                        /\ Withdrawals[k].status # "rejected"
                     THEN Withdrawals[k].amount ELSE 0])))

\* The answers GET /api/user/balance can give.  The handler reads the
\* withdrawals from the Cosmos container whatever the deployment switch
\* says: under Google Cloud that container is not where withdraw-request
\* writes (it holds no withdrawal, or the Cosmos database is not there at all
\* and the handler answers 500).
BalanceAnswers(userId) ==
    IF USE_GOOGLE_CLOUD
    THEN {[status |-> 500, availableBalance |-> NullNum],
          [status |-> 200, availableBalance |-> TotalEarnings(userId)]}
    ELSE {[status |-> 200,
           availableBalance |-> RSub(TotalEarnings(userId),
                                     R(WithdrawnAmount(userId)))]}

\* A handler without the minimum-withdrawal check.
WithdrawStart_NoMinimum(r, userId, amount, hasDestination) ==
    /\ FreeSlot(r)
    /\ LET rq == [IdleReq EXCEPT !.op = "withdraw", !.who = userId,
                                 !.amount = amount]
       IN req' = [req EXCEPT ![r] =
            IF userId = NullStr \/ amount = 0 THEN Respond(rq, 400)
            ELSE IF ~hasDestination THEN Respond(rq, 400)
            ELSE [rq EXCEPT !.pc = "withdraw_earnings"]]
    /\ UNCHANGED <<USE_GOOGLE_CLOUD, store, now, nextItemId, nextCartId>>

\* Validation of the request body: nothing is read from the store.
WithdrawStart(r, userId, amount, hasDestination) ==
    /\ FreeSlot(r)
    /\ LET rq == [IdleReq EXCEPT !.op = "withdraw", !.who = userId,
                                 !.amount = amount]
       IN req' = [req EXCEPT ![r] =
            IF userId = NullStr \/ amount = 0 THEN Respond(rq, 400)
            ELSE IF amount < MIN_WITHDRAWAL THEN Respond(rq, 400)
            ELSE IF ~hasDestination THEN Respond(rq, 400)
            ELSE [rq EXCEPT !.pc = "withdraw_earnings"]]
    /\ UNCHANGED <<USE_GOOGLE_CLOUD, store, now, nextItemId, nextCartId>>

\* Query of the owner's sold submissions.
WithdrawReadEarnings(r) ==
    /\ req[r].pc = "withdraw_earnings"
    /\ req' = [req EXCEPT ![r].pc = "withdraw_withdrawn",
                          ![r].earned = TotalEarnings(req[r].who)]
    /\ UNCHANGED <<USE_GOOGLE_CLOUD, store, now, nextItemId, nextCartId>>

\* A handler that compares the amount with the earnings alone.
WithdrawCheck_IgnoresWithdrawn(r) ==
    /\ req[r].pc = "withdraw_withdrawn"
    /\ LET rq == req[r]
           availableBalance == RSub(rq.earned, R(WithdrawnAmount(rq.who)))
           rq2 == [rq EXCEPT !.avail = availableBalance]
       IN req' = [req EXCEPT ![r] =
            IF RLess(rq.earned, R(rq.amount)) THEN Respond(rq2, 400)
            ELSE [rq2 EXCEPT !.pc = "withdraw_create"]]
    /\ UNCHANGED <<USE_GOOGLE_CLOUD, store, now, nextItemId, nextCartId>>

\* Query of the owner's withdrawals and the balance check.
WithdrawCheck(r) ==
    /\ req[r].pc = "withdraw_withdrawn"
    /\ LET rq == req[r]
           availableBalance == RSub(rq.earned, R(WithdrawnAmount(rq.who)))
           rq2 == [rq EXCEPT !.avail = availableBalance]
       IN req' = [req EXCEPT ![r] =
            IF RLess(availableBalance, R(rq.amount)) THEN Respond(rq2, 400)
            ELSE [rq2 EXCEPT !.pc = "withdraw_create"]]
    /\ UNCHANGED <<USE_GOOGLE_CLOUD, store, now, nextItemId, nextCartId>>

\* Creation of the pending withdrawal document.
WithdrawCreate(r) ==
    /\ req[r].pc = "withdraw_create"
    /\ Withdrawals' = Append(Withdrawals,
                             [userId |-> req[r].who, amount |-> req[r].amount,
                              status |-> "pending", createdAt |-> now,
                              by |-> r])
    /\ req' = [req EXCEPT ![r] = Respond(@, 200)]
    /\ UNCHANGED <<USE_GOOGLE_CLOUD, Submissions, Orders, Agencies, Users,
                   now, nextItemId, nextCartId>>

Signatures ==
    {Hmac(o, p) : o \in OrderIds, p \in PaymentIds}
        \cup {ForgedSignature, NoSignature}

\* ------------------------------------------------------------ specifications
\* Payment confirmation: one listed item, one buying agency with its cart
\* and its order, and confirmations that are valid, forged or incomplete.
SettleInventory == << <<"u1", 100, "Images">> >>

Init == InitStore(SettleInventory)

CartSteps(r) ==
    \/ CartAddRead(r, "a1", "Images")
    \/ CartAddWrite(r)

OrderSteps ==
    \E items \in {CartIdsOf("a1"), CartCategoriesOf("a1")} \ {<<>>} :
        CreatePayment("a1", items, 125)

VerifySteps(r) ==
    \/ VerifyFind(r)
    \/ VerifyOrderWrite(r)
    \/ VerifyReadCart(r)
    \/ VerifyQuery(r)
    \/ VerifyWriteCosmos(r)
    \/ VerifyWriteFirestore(r)
    \/ VerifyCreditRead(r)
    \/ VerifyCreditWrite(r)
    \/ VerifyClearCart(r)

Next ==
    \/ \E r \in Reqs : CartSteps(r)
    \/ OrderSteps
    \/ \E r \in Reqs, o \in OrderIds \cup {0}, sig \in Signatures :
          VerifyStart(r, o, "pay1", sig)
    \/ \E r \in Reqs : VerifySteps(r)

Spec == Init /\ [][Next]_vars

\* The same with time passing and one more upload into the category.
NextRerun ==
    \/ Next
    \/ Tick
    \/ ProcessFile("u2", 0, "Images")

SpecRerun == Init /\ [][NextRerun]_vars

\* Direct purchase routes: two agencies buy from a small inventory.
MarketInventory ==
    << <<"u1", 90, "Images">>, <<"u2", 50, "Images">>, <<"u1", 0, "Code">> >>

InitMarket == InitStore(MarketInventory)

NextMarket ==
    \/ \E r \in Reqs, c \in {"Images", NullStr}, a \in AgencyIds :
          PurchaseFetch(r, c, a)
    \/ \E r \in Reqs : PurchaseWrite(r)
    \/ \E r \in Reqs, items \in {<<"Images">>, <<"Code", "Images">>},
          a \in {"a1", NullStr} : CheckoutStart(r, items, a)
    \/ \E r \in Reqs : CheckoutFetch(r)
    \/ \E r \in Reqs : CheckoutWrite(r)

SpecMarket == InitMarket /\ [][NextMarket]_vars

\* Batches: the category holds more listed items than one batch takes.
BatchInventory ==
    << <<"u1", 90, "Images">>, <<"u2", 80, "Images">>, <<"u1", 70, "Images">>,
       <<"u2", 60, "Images">>, <<"u1", 50, "Images">>, <<"u2", 40, "Images">> >>

InitBatch == InitStore(BatchInventory)

NextBatch ==
    \/ \E r \in Reqs : CartSteps(r)
    \/ CreatePayment("a1", CartIdsOf("a1"), 125)
    \/ \E r \in Reqs : VerifyStart(r, 1, "pay1", Hmac(1, "pay1"))
    \/ \E r \in Reqs : VerifySteps(r)

SpecBatch == InitBatch /\ [][NextBatch]_vars

\* Ledger: two items are sold through a confirmed payment, and their owner
\* asks for withdrawals.
LedgerInventory == << <<"u1", 100, "Images">>, <<"u1", 100, "Images">> >>

InitLedger == InitStore(LedgerInventory)

WithdrawAmounts == {-50, 0, 50, 100, 200}

NextLedger ==
    \/ \E r \in Reqs : CartSteps(r)
    \/ CreatePayment("a1", CartIdsOf("a1"), 125)
    \/ \E r \in Reqs : VerifyStart(r, 1, "pay1", Hmac(1, "pay1"))
    \/ \E r \in Reqs : VerifySteps(r)
    \/ \E r \in Reqs, amount \in WithdrawAmounts, dest \in BOOLEAN :
          WithdrawStart(r, "u1", amount, dest)
    \/ \E r \in Reqs : WithdrawReadEarnings(r)
    \/ \E r \in Reqs : WithdrawCheck(r)
    \/ \E r \in Reqs : WithdrawCreate(r)

SpecLedger == InitLedger /\ [][NextLedger]_vars

\* Earnings: text files are ingested with whatever trust score the analysis
\* answered, sold through a confirmed payment, and their owner's earnings
\* are read by a withdrawal request.
InitEarned == InitStore(<<>>)

TrustScores == {JsNumber(0), JsNumber(100), JsNotANumber}

NextEarned ==
    \/ \E ts \in TrustScores : ProcessTextFile("u1", ts, "Images")
    \/ \E r \in Reqs : CartSteps(r)
    \/ CreatePayment("a1", CartIdsOf("a1"), 125)
    \/ \E r \in Reqs : VerifyStart(r, 1, "pay1", Hmac(1, "pay1"))
    \/ \E r \in Reqs : VerifySteps(r)
    \/ \E r \in Reqs : WithdrawStart(r, "u1", 100, TRUE)
    \/ \E r \in Reqs : WithdrawReadEarnings(r)
    \/ \E r \in Reqs : WithdrawCheck(r)
    \/ \E r \in Reqs : WithdrawCreate(r)

SpecEarned == InitEarned /\ [][NextEarned]_vars

\* Payout calculator: files of every score from 0 to 100 are ingested.
InitPayout == InitStore(<<>>)

PayoutScores == 0..100

NextPayout == \E score \in PayoutScores : ProcessFile("u1", score, "Images")

SpecPayout == InitPayout /\ [][NextPayout]_vars

\* Orders and other buyers: agency a1 creates an order for its cart while
\* agency a2 buys from the same category.
InitHold == InitStore(SettleInventory)

NextHold ==
    \/ \E r \in Reqs : CartSteps(r)
    \/ CreatePayment("a1", CartIdsOf("a1"), 125)
    \/ Tick
    \/ \E r \in Reqs : PurchaseFetch(r, "Images", "a2")
    \/ \E r \in Reqs : PurchaseWrite(r)

SpecHold == InitHold /\ [][NextHold]_vars

\* Allocation: a category with the five scores of the specification's
\* scenario, and a category whose items have no quality at all.
AllocInventory ==
    << <<"u1", 90, "Images">>, <<"u2", 80, "Images">>, <<"u1", 70, "Images">>,
       <<"u2", 60, "Images">>, <<"u1", 50, "Images">>,
       <<"u1", 0, "Code">>, <<"u2", 0, "Code">> >>

InitAlloc == InitStore(AllocInventory)

NextAlloc ==
    \/ \E r \in Reqs, c \in Categories : PurchaseFetch(r, c, "a1")
    \/ \E r \in Reqs : PurchaseWrite(r)
    \/ \E r \in Reqs : CheckoutStart(r, <<"Code", "Images">>, "a2")
    \/ \E r \in Reqs : CheckoutFetch(r)
    \/ \E r \in Reqs : CheckoutWrite(r)

SpecAlloc == InitAlloc /\ [][NextAlloc]_vars

\* Deletion: the owner deletes a listed file while agencies buy it, directly
\* or through a confirmed payment.
InitDelete == InitStore(SettleInventory)

NextDelete ==
    \/ \E r \in Reqs : CartSteps(r)
    \/ CreatePayment("a1", CartIdsOf("a1"), 125)
    \/ \E r \in Reqs : VerifyStart(r, 1, "pay1", Hmac(1, "pay1"))
    \/ \E r \in Reqs : VerifySteps(r)
    \/ \E r \in Reqs : PurchaseFetch(r, "Images", "a2")
    \/ \E r \in Reqs : PurchaseWrite(r)
    \/ \E r \in Reqs, u \in UserIds : DeleteFileRead(r, 1, u)
    \/ \E r \in Reqs : DeleteFileWrite(r)

SpecDelete == InitDelete /\ [][NextDelete]_vars

\* Resumption: agency a1 fills its cart with both categories and orders it;
\* confirmations of the order arrive one after the other, and a settlement
\* may stop half-way.
InitResume == InitStore(MarketInventory)

NextResume ==
    \/ \E r \in Reqs, c \in Categories :
          /\ \A q \in Reqs : ~InFlight(q)
          /\ CartAddRead(r, "a1", c)
    \/ \E r \in Reqs : CartAddWrite(r)
    \/ /\ \A q \in Reqs : ~InFlight(q)
       /\ Len(Agencies["a1"].cart) = Cardinality(Categories)
       /\ CreatePayment("a1", CartIdsOf("a1"), 125)
    \/ \E r \in Reqs :
          /\ \A q \in Reqs : ~InFlight(q)
          /\ VerifyStart(r, 1, "pay1", Hmac(1, "pay1"))
    \/ \E r \in Reqs : VerifySteps(r)
    \/ \E r \in Reqs : VerifyStop(r)

SpecResume == InitResume /\ [][NextResume]_vars

\* Cart changes: agency a1 orders its cart (every entry names Images, which
\* holds one listed item), and changes or clears the cart before the
\* confirmation arrives.
InitCartChange == InitStore(SettleInventory)

NextCartChange ==
    \/ \E r \in Reqs : CartSteps(r)
    \/ \E r \in Reqs : CartRemoveRead(r, "a1", "Images")
    \/ \E r \in Reqs : CartClearRead(r, "a1")
    \/ CreatePayment("a1", CartIdsOf("a1"), 125)
    \/ \E r \in Reqs : VerifyStart(r, 1, "pay1", Hmac(1, "pay1"))
    \/ \E r \in Reqs : VerifySteps(r)

SpecCartChange == InitCartChange /\ [][NextCartChange]_vars

\* Cart: one agency adds categories to its cart, removes entries (by id or
\* by category) and clears the cart, all at once.
InitCart == InitStore(<<>>)

NextCart ==
    \/ \E r \in Reqs, c \in Categories : CartAddRead(r, "a1", c)
    \/ \E r \in Reqs : CartAddWrite(r)
    \/ \E r \in Reqs, itemId \in {"Images", "cart1"} :
          CartRemoveRead(r, "a1", itemId)
    \/ \E r \in Reqs : CartClearRead(r, "a1")

SpecCart == InitCart /\ [][NextCart]_vars

\* ------------------------------------------------------------------ ledger
\* The ledger of the specification: earned is the contributor share of the
\* sold price of the owner's sold items.
LedgerEarned(userId) ==
    LET ids == {i \in DOMAIN Submissions :
                  /\ Submissions[i].userId = userId
                  /\ Submissions[i].sold_to # NullStr}
        order == SortedSeq(ids)
    IN RSumSeq([k \in 1..Len(order) |->
                  RMul(Submissions[order[k]].sold_price, ContributorShare)])

LedgerWithdrawn(userId) ==
    LET mine == SelectSeq(Withdrawals,
                   LAMBDA w : /\ w.userId = userId
                              /\ w.status \in {"pending", "processing",
                                               "completed"})
    IN SumSeq([k \in 1..Len(mine) |-> mine[k].amount])

LedgerAvailable(userId) ==
    RSub(LedgerEarned(userId), R(LedgerWithdrawn(userId)))

\* Request r takes a step.
StepOf(r) == req'[r] # req[r]

\* ------------------------------------------------------------------ claims
\* C1: no double claim.  The sets of items that different callers mark sold
\* are pairwise disjoint.
C1_NoDoubleClaim ==
    \A r1 \in Reqs, r2 \in Reqs :
        r1 # r2 => req[r1].wrote \cap req[r2].wrote = {}

\* C2: two confirmations of the same payment sell each item at most once and
\* credit its owner at most once.
C2_DuplicateConfirmationOnce ==
    \A r1 \in Reqs, r2 \in Reqs :
        (/\ r1 # r2
         /\ req[r1].op = "verify" /\ req[r2].op = "verify"
         /\ req[r1].sigValid /\ req[r2].sigValid
         /\ req[r1].ref = req[r2].ref)
        => /\ req[r1].wrote \cap req[r2].wrote = {}
           /\ \A i \in 1..Len(req[r1].credits), j \in 1..Len(req[r2].credits) :
                 req[r1].credits[i].item # req[r2].credits[j].item

\* C3: settlement is idempotent.  A confirmation that arrives after the order
\* has been settled changes no item, no balance and no order.
C3_SettleIdempotent ==
    [][\A r \in Reqs :
          (StepOf(r) /\ req[r].op = "verify" /\ req[r].rerun)
          => UNCHANGED <<Submissions, Users, Orders>>]_vars

\* C4: the available balance of every owner is never negative.
C4_AvailableNonNegative ==
    \A u \in UserIds : ~RLess(LedgerAvailable(u), R(0))

\* C5: a withdrawal request whose amount exceeds the owner's available
\* balance at the balance check is rejected with status 400 and the
\* withdrawal records stay as they are.
C5_InsufficientRejected ==
    [][\A r \in Reqs :
          (/\ StepOf(r)
           /\ req[r].pc = "withdraw_withdrawn"
           /\ RLess(LedgerAvailable(req[r].who), R(req[r].amount)))
          => /\ req'[r].pc = "done"
             /\ req'[r].status = 400
             /\ Withdrawals' = Withdrawals]_vars

C5_Witness ==
    \E r \in Reqs :
        /\ req[r].op = "withdraw" /\ req[r].pc = "done" /\ req[r].status = 400
        /\ req[r].amount >= MIN_WITHDRAWAL
        /\ RLess(R(0), req[r].avail)
        /\ RLess(req[r].avail, R(req[r].amount))
        /\ Withdrawals # <<>>

\* C6: a withdrawal request under the minimum (zero and negative amounts
\* included) is answered with status 400 before anything is read, and no
\* withdrawal record is under the minimum.
C6_BelowMinimumRejected ==
    /\ \A r \in Reqs :
          (req[r].op = "withdraw" /\ req[r].amount < MIN_WITHDRAWAL)
          => (req[r].pc = "done" /\ req[r].status = 400)
    /\ \A k \in 1..Len(Withdrawals) : Withdrawals[k].amount >= MIN_WITHDRAWAL

C6_Witness ==
    \E r1 \in Reqs, r2 \in Reqs :
        /\ req[r1].op = "withdraw" /\ req[r1].pc = "done"
        /\ req[r1].status = 400 /\ req[r1].amount < 0
        /\ req[r2].op = "withdraw" /\ req[r2].pc = "done"
        /\ req[r2].status = 400 /\ req[r2].amount = 50
        /\ ~RLess(LedgerAvailable("u1"), R(50))
        /\ Withdrawals = <<>>

\* C7: every sold item is accounted for by a paid order of its buyer.
C7_SoldOnlyAfterVerifiedPayment ==
    \A i \in DOMAIN Submissions :
        Submissions[i].sold_to # NullStr
        => \E o \in DOMAIN Orders :
              /\ Orders[o].agencyId = Submissions[i].sold_to
              /\ Orders[o].status = "paid"

\* C8: the sold prices of every batch sold for one category line add up to
\* the number of its items times the price per item.
C8_BatchSumIsBatchPrice ==
    \A r \in Reqs :
        req[r].pc = "done"
        => \A k \in 1..Len(req[r].lines) :
              RSumSeq([j \in 1..Len(req[r].lines[k]) |->
                          req[r].lines[k][j].sold_price])
                  = R(Len(req[r].lines[k]) * PricePerItem)

\* C9: one category line sells at most a batch of five items.
C9_AtMostBatchSize ==
    \A r \in Reqs : \A k \in 1..Len(req[r].lines) :
        Len(req[r].lines[k]) <= BatchSize

\* C10: a confirmation that fails verification (or lacks a field) is answered
\* with an error, and no step of its request changes the store.
C10_RejectedConfirmationChangesNothing ==
    [][\A r \in Reqs :
          (StepOf(r) /\ req'[r].op = "verify" /\ ~req'[r].sigValid)
          => /\ req'[r].pc = "done"
             /\ req'[r].status = 400
             /\ UNCHANGED store]_vars

C10_Witness ==
    \E r \in Reqs :
        /\ req[r].op = "verify" /\ req[r].pc = "done" /\ req[r].status = 400
        /\ ~req[r].sigValid
        /\ req[r].ref \in DOMAIN Orders
        /\ Orders[req[r].ref].status = "pending"
        /\ Agencies[Orders[req[r].ref].agencyId].cart # <<>>

\* C11: a confirmation whose signature is not the HMAC, presented for an
\* existing pending order, moves that order to the status failed.
C11_ForgedConfirmationFailsOrder ==
    [][\A r \in Reqs, o \in OrderIds :
          (/\ o \in DOMAIN Orders
           /\ Orders[o].status = "pending"
           /\ VerifyStart(r, Orders[o].razorpayOrderId, "pay1",
                          ForgedSignature))
          => Orders'[o].status = "failed"]_vars

\* C12: an order that has reached the status paid is never changed again, in
\* any of its fields.
C12_PaidOrderImmutable ==
    [][\A o \in DOMAIN Orders :
          Orders[o].status = "paid"
          => (o \in DOMAIN Orders' /\ Orders'[o] = Orders[o])]_vars

\* C13: the sale fields of a sold item (sold_to, sold_price,
\* transaction_date) never change again.
C13_SoldFieldsImmutable ==
    [][\A i \in DOMAIN Submissions :
          Submissions[i].sold_to # NullStr
          => /\ i \in DOMAIN Submissions'
             /\ Submissions'[i].sold_to = Submissions[i].sold_to
             /\ Submissions'[i].sold_price = Submissions[i].sold_price
             /\ Submissions'[i].transaction_date
                    = Submissions[i].transaction_date]_vars

C15_EmptyCategoryNotAnError ==
    \A r \in Reqs :
        (/\ req[r].pc = "done"
         /\ req[r].op \in {"purchase", "checkout", "verify"}
         /\ \E k \in 1..Len(req[r].lines) : req[r].lines[k] = <<>>)
        => req[r].status = 200

\* The amount the settlement has credited to an owner: the balance field of
\* the user document under Firestore; under Cosmos no balance is stored and
\* the credit is what the ledger computes as earned.
Credited(userId) ==
    IF USE_GOOGLE_CLOUD THEN Users[userId].balance ELSE TotalEarnings(userId)

\* C16: whenever no request is in flight, the amount credited to every owner
\* is the contributor share of the sold prices of the owner's sold items.
C16_CreditIsContributorShare ==
    (\A r \in Reqs : ~InFlight(r))
    => \A u \in UserIds : Credited(u) = LedgerEarned(u)

\* C17: the earnings the ledger computes for every owner are the contributor
\* share of the sold prices of the owner's sold items.
C17_EarnedIsShareOfSoldPrice ==
    \A u \in UserIds : TotalEarnings(u) = LedgerEarned(u)

\* C18: the payout is never negative and never decreases when the score
\* grows, for all scores from 0 to 100.
C18_PayoutMonotone ==
    \A i \in DOMAIN Submissions, j \in DOMAIN Submissions :
        Submissions[i].quality_score <= Submissions[j].quality_score
        => /\ ~RLess(Submissions[i].payout, R(0))
           /\ ~RLess(Submissions[j].payout, Submissions[i].payout)

C18_Witness ==
    \E i \in DOMAIN Submissions, j \in DOMAIN Submissions :
        /\ Submissions[i].quality_score = 49
        /\ Submissions[j].quality_score = 80
        /\ RLess(Submissions[i].payout, Submissions[j].payout)

\* The payout policy as the specification states it.
PolicyPayout(score) ==
    IF score < 50 THEN RMax(Norm(1, 10), RMul(R(score), Norm(1, 10)))
    ELSE IF score < 80 THEN RAdd(R(5), RMul(R(score - 50), Norm(5, 10)))
    ELSE RAdd(R(20), RMul(R(score - 80), R(4)))

\* C19: the payout of every ingested file is the payout of the piecewise
\* policy for its score.
C19_PayoutIsPolicy ==
    \A i \in DOMAIN Submissions :
        Submissions[i].payout = PolicyPayout(Submissions[i].quality_score)

C19_Witness ==
    \E i \in DOMAIN Submissions, j \in DOMAIN Submissions :
        /\ Submissions[i].quality_score = 0
        /\ Submissions[i].payout = Norm(1, 10)
        /\ Submissions[j].quality_score = 100
        /\ Submissions[j].payout = R(100)

\* C20: the step that adds an order changes no item (the unsold items of
\* every category stay the same), leaves the other orders, the agencies, the
\* users and the withdrawals alone, and the order it adds is pending.
C20_CreatePaymentFrame ==
    [][(DOMAIN Orders' # DOMAIN Orders)
       => /\ Submissions' = Submissions
          /\ \A c \in Categories : UnsoldIn(c)' = UnsoldIn(c)
          /\ \A o \in DOMAIN Orders :
                o \in DOMAIN Orders' /\ Orders'[o] = Orders[o]
          /\ \A o \in DOMAIN Orders' \ DOMAIN Orders :
                Orders'[o].status = "pending"
          /\ UNCHANGED <<Agencies, Users, Withdrawals>>]_vars

\* An item of the ordered category is bought by another agency after the
\* order was created.
C20_Witness ==
    \E o \in DOMAIN Orders, i \in DOMAIN Submissions :
        /\ Orders[o].status = "pending"
        /\ Orders[o].agencyId = "a1"
        /\ Orders[o].items # <<>>
        /\ Submissions[i].sold_to = "a2"
        /\ Submissions[i].transaction_date > Orders[o].createdAt

\* The allocation of the specification for one item of a batch.
PolicyProceeds(len, totalQuality, qualityScore) ==
    IF totalQuality > 0
    THEN RMul(R(len * 25), Norm(qualityScore, totalQuality))
    ELSE Norm(len * 25, len)

\* The quality scores of the items of a batch, as stored.
LineQuality(line) ==
    [j \in 1..Len(line) |-> Submissions[line[j].id].quality_score]

\* C21: every batch written by purchase or checkout gives each item the
\* quality-weighted share of len(batch) * 25 (the equal share when the batch
\* has no quality), the shares add up to the batch value, and a request that
\* met an empty batch wrote nothing for it.
C21_AllocationIsPolicy ==
    \A r \in Reqs :
        (req[r].pc = "done" /\ req[r].op \in {"purchase", "checkout"})
        => /\ \A k \in 1..Len(req[r].lines) :
                LET line == req[r].lines[k]
                    totalQuality == SumSeq(LineQuality(line))
                IN /\ \A j \in 1..Len(line) :
                         line[j].sold_price =
                             PolicyProceeds(Len(line), totalQuality,
                                            LineQuality(line)[j])
                   /\ RSumSeq([j \in 1..Len(line) |-> line[j].sold_price])
                          = R(Len(line) * 25)
           /\ req[r].status = 404 => req[r].wrote = {}

\* The scenario of the specification (scores 90, 80, 70, 60, 50: batch value
\* 125, total quality 350) next to a batch without quality.
C21_Witness ==
    \E r1 \in Reqs, r2 \in Reqs :
        /\ req[r1].pc = "done" /\ req[r1].op = "purchase"
        /\ Len(req[r1].lines) = 1
        /\ LineQuality(req[r1].lines[1]) = <<90, 80, 70, 60, 50>>
        /\ req[r1].lines[1][1].sold_price = Norm(125 * 90, 350)
        /\ req[r1].lines[1][5].sold_price = Norm(125 * 50, 350)
        /\ RSumSeq([j \in 1..5 |-> req[r1].lines[1][j].sold_price]) = R(125)
        /\ req[r2].pc = "done" /\ req[r2].op = "purchase"
        /\ Len(req[r2].lines) = 1
        /\ LineQuality(req[r2].lines[1]) = <<0, 0>>
        /\ req[r2].lines[1][1].sold_price = R(25)

\* C22: the price recorded on every item sold by a settlement path
\* (purchase, checkout, verify-payment) is the allocation's proceeds for the
\* item within its batch.
C22_SoldPriceIsAllocation ==
    \A r \in Reqs :
        req[r].op \in {"purchase", "checkout", "verify"}
        => \A k \in 1..Len(req[r].lines) :
              LET line == req[r].lines[k]
                  totalQuality == SumSeq(LineQuality(line))
              IN \A j \in 1..Len(line) :
                    line[j].sold_price =
                        PolicyProceeds(Len(line), totalQuality,
                                       LineQuality(line)[j])

\* C23: an item that is stored as sold is in the store in every later state.
C23_SoldNeverDeleted ==
    [][\A i \in DOMAIN Submissions :
          Submissions[i].sold_to # NullStr
          => i \in DOMAIN Submissions']_vars

\* C24: within one settlement, a credit is applied for an item only after
\* the request has marked that item sold, and the cart is cleared only when
\* no category and no item is left to process and (where balances are
\* stored) every item the request sold has been credited.
C24_ClaimCreditClearOrdered ==
    [][\A r \in Reqs :
          (StepOf(r) /\ req[r].op = "verify" /\ InFlight(r))
          => /\ Len(req'[r].credits) > Len(req[r].credits)
                => req'[r].credits[Len(req'[r].credits)].item
                       \in req[r].wrote
             /\ Agencies' # Agencies
                => /\ req[r].cats = <<>>
                   /\ req[r].batch = <<>>
                   /\ req'[r].pc = "done"
                   /\ USE_GOOGLE_CLOUD
                      => \A id \in req[r].wrote :
                            \E k \in 1..Len(req[r].credits) :
                               req[r].credits[k].item = id]_vars

C24_Witness ==
    \E r \in Reqs :
        /\ USE_GOOGLE_CLOUD
        /\ req[r].op = "verify" /\ req[r].pc = "done" /\ req[r].status = 200
        /\ req[r].wrote = {1, 2}
        /\ Len(req[r].credits) = 2
        /\ Agencies[req[r].who].cart = <<>>

\* The sold prices of the sold items of an owner.
SoldTotal(userId) ==
    LET ids == {i \in DOMAIN Submissions :
                  /\ Submissions[i].userId = userId
                  /\ Submissions[i].sold_to # NullStr}
        order == SortedSeq(ids)
    IN RSumSeq([k \in 1..Len(order) |-> Submissions[order[k]].sold_price])

\* C25: once a confirmation of the order has been answered with success and
\* nothing is in flight, the store is the one an uninterrupted settlement
\* leaves, whatever settlements of the order stopped half-way before: every
\* item of the ordered categories is sold to the buyer, every sale has been
\* credited exactly once where balances are stored, the order is paid and
\* the cart is empty.
C25_ResumedSettlementCompletes ==
    (/\ \A r \in Reqs : ~InFlight(r)
     /\ \E r \in Reqs : /\ req[r].op = "verify" /\ req[r].pc = "done"
                        /\ req[r].status = 200)
    => /\ \A i \in DOMAIN Submissions : Submissions[i].sold_to = "a1"
       /\ USE_GOOGLE_CLOUD
          => \A u \in UserIds : Users[u].balance = SoldTotal(u)
       /\ \A o \in DOMAIN Orders : Orders[o].status = "paid"
       /\ Agencies["a1"].cart = <<>>

\* C26: when a confirmation of an order with line items has been answered
\* with success, the ordered category (Images, which held a listed item when
\* the settlement ran) has an item sold to the order's agency.
C26_PaidOrderCategoriesSold ==
    \A r \in Reqs :
        (/\ req[r].op = "verify" /\ req[r].pc = "done" /\ req[r].status = 200
         /\ req[r].ref \in DOMAIN Orders
         /\ Orders[req[r].ref].items # <<>>)
        => \E i \in DOMAIN Submissions :
              /\ Submissions[i].market_category = "Images"
              /\ Submissions[i].sold_to = Orders[req[r].ref].agencyId

\* C27: the answer to a confirmation whose signature is not the HMAC is the
\* same in every state of the store: status 400, and nothing of the order,
\* the cart or the items in what the handler holds.
C27_ForgedAnswerIgnoresStore ==
    [][\A r \in Reqs, o \in OrderIds :
          VerifyStart(r, o, "pay1", ForgedSignature)
          => /\ req'[r].pc = "done"
             /\ req'[r].status = 400
             /\ req'[r].who = NullStr
             /\ req'[r].orderDoc = IdleReq.orderDoc
             /\ req'[r].cart = <<>>
             /\ req'[r].batch = <<>>]_vars

\* A rejected confirmation that arrived after its order had been settled.
C27_Witness ==
    \E r \in Reqs :
        /\ req[r].op = "verify" /\ req[r].pc = "done" /\ req[r].status = 400
        /\ ~req[r].sigValid
        /\ req[r].rerun
        /\ req[r].ref \in DOMAIN Orders
        /\ Orders[req[r].ref].status = "paid"

\* C28: every credit a settlement applies raises the owner's stored balance
\* by the amount of the credit, so that the balance is the initial balance
\* plus the sum of the credits applied.
C28_NoCreditLost ==
    [][\A r \in Reqs :
          Len(req'[r].credits) > Len(req[r].credits)
          => LET credit == req'[r].credits[Len(req'[r].credits)]
             IN Users'[credit.user].balance
                    = RAdd(Users[credit.user].balance, credit.amount)]_vars

\* C29: for every owner the available balance is the same in withdraw-request,
\* in the withdrawals listing and in every successful answer of the balance
\* endpoint.
C29_AvailableAgrees ==
    \A u \in UserIds :
        /\ WithdrawalsAvailable(u) = WithdrawRequestAvailable(u)
        /\ \A answer \in BalanceAnswers(u) :
              answer.status = 200
              => answer.availableBalance = WithdrawRequestAvailable(u)

\* No two entries of a cart name the same category.
NoDuplicateCategory(cart) ==
    \A j \in 1..Len(cart), k \in 1..Len(cart) :
        cart[j].category = cart[k].category => j = k

\* C30: the stored cart of every agency never holds two entries of the same
\* category, and an add-to-cart for a category that is in the stored cart is
\* answered 409 and leaves the cart as it is.
C30_CartHasNoDuplicate ==
    [][/\ \A a \in AgencyIds : NoDuplicateCategory(Agencies'[a].cart)
       /\ \A r \in Reqs, c \in Categories :
             (/\ CartAddRead(r, "a1", c)
              /\ \E k \in 1..Len(Agencies["a1"].cart) :
                    Agencies["a1"].cart[k].category = c)
             => /\ req'[r].pc = "done"
                /\ req'[r].status = 409
                /\ Agencies' = Agencies]_vars

C30_Witness ==
    \E r \in Reqs :
        /\ req[r].op = "cartAdd" /\ req[r].pc = "done" /\ req[r].status = 409
        /\ Len(Agencies["a1"].cart) = 1
        /\ Agencies["a1"].cart[1].id = "cart2"
====
